---- MODULE Spec2Model ----
(***************************************************************************)
(* The contract of lr::lcd::CharacterDisplay (src/CharacterDisplay.hpp).   *)
(*                                                                         *)
(* The header declares thirteen pure virtual functions and documents the   *)
(* effect each one has on a character display: a fixed grid of cells, a    *)
(* cursor, a display shift, a cursor mode, a writing direction, an         *)
(* auto-scroll flag, a backlight and an enable flag.  The model is the     *)
(* state machine those documentation comments describe.  Every action is   *)
(* one call that returned a successful Status; the header documents no     *)
(* effect for a call that fails, for coordinates outside the display, or   *)
(* for a write to a position that is not a cell of the display, and the    *)
(* model has no action for them.                                           *)
(***************************************************************************)
EXTENDS Integers, Sequences, FiniteSets, TLC

\* The size of the display ("a fixed number of columns and rows").
Columns == 2
Rows == 2
\* The longest text passed to writeText.
MaxLen == 2
\* The number of calls made on the display in one behaviour.
MaxCalls == 3

\* The characters passed to writeChar and writeText; "\n" is the line break.
Chars == {"a", "\n"}
\* The content of a cell nothing was written to.
Empty == " "
Cell == Chars \cup {Empty}
Texts == UNION {[1..n -> Chars] : n \in 0..MaxLen}

ColIdx == 0..(Columns - 1)
RowIdx == 0..(Rows - 1)

CursorMode == {"Off", "Line", "Block"}
WritingDirection == {"LeftToRight", "RightToLeft"}
ScrollDirection == {"Left", "Right", "Up", "Down"}

VARIABLES
    cells,             \* cells[y][x]: the character shown at column x of row y
    cursor,            \* [x, y]: where the next character is written
    shift,             \* [x, y]: how far scroll() has shifted the display
    cursorMode,
    writingDirection,
    autoScroll,
    backlight,
    enabled,
    lastCall,          \* the function called last
    lastArg,           \* the arguments of that call, as a tuple
    repeated,          \* that call repeats the call before it, arguments included
    calls              \* the number of calls made so far

vars == <<cells, cursor, shift, cursorMode, writingDirection, autoScroll,
          backlight, enabled, lastCall, lastArg, repeated, calls>>

EmptyScreen == [y \in RowIdx |-> [x \in ColIdx |-> Empty]]
Home == [x |-> 0, y |-> 0]
NotShifted == [x |-> 0, y |-> 0]

\* A cursor that stands on a cell of the display.
OnDisplay(cur) == cur.x \in ColIdx /\ cur.y \in RowIdx

\* One step of the cursor along its row in the writing direction.
Step(dir) == IF dir = "LeftToRight" THEN 1 ELSE -1

\* One step of the display shift.
Delta(d) ==
    CASE d = "Left"  -> [x |-> -1, y |-> 0]
      [] d = "Right" -> [x |-> 1, y |-> 0]
      [] d = "Up"    -> [x |-> 0, y |-> -1]
      [] d = "Down"  -> [x |-> 0, y |-> 1]

\* writeChar with a line break that starts the next row: the handling the
\* header says a driver does not need.
WriteCharLineBreak(cs, cur, dir, c) ==
    IF c = "\n"
    THEN [cells |-> cs, cursor |-> [x |-> 0, y |-> (cur.y + 1) % Rows]]
    ELSE [cells |-> [cs EXCEPT ![cur.y][cur.x] = c],
          cursor |-> [cur EXCEPT !.x = @ + Step(dir)]]

\* writeChar(c): c goes to the cell under the cursor, the cursor moves one
\* step along the row in the writing direction.
WriteChar(cs, cur, dir, c) ==
    [cells |-> [cs EXCEPT ![cur.y][cur.x] = c],
     cursor |-> [cur EXCEPT !.x = @ + Step(dir)]]

\* writeText that always fills the row from left to right.
WriteTextLeftToRight(cs, cur, dir, s) ==
    [cells |-> [y \in RowIdx |-> [x \in ColIdx |->
                  IF y = cur.y /\ (x - cur.x) + 1 \in 1..Len(s)
                  THEN s[(x - cur.x) + 1]
                  ELSE cs[y][x]]],
     cursor |-> [cur EXCEPT !.x = @ + Len(s)]]

\* writeText(text): the text is laid into the row from the cursor on, in
\* the writing direction; the cursor ends behind its last character.
WriteText(cs, cur, dir, s) ==
    [cells |-> [y \in RowIdx |-> [x \in ColIdx |->
                  IF y = cur.y /\ (x - cur.x) * Step(dir) + 1 \in 1..Len(s)
                  THEN s[(x - cur.x) * Step(dir) + 1]
                  ELSE cs[y][x]]],
     cursor |-> [cur EXCEPT !.x = @ + Step(dir) * Len(s)]]

\* The cells a text of length n occupies are cells of the display.
Fits(cur, dir, n) ==
    n = 0 \/ (OnDisplay(cur) /\ cur.x + Step(dir) * (n - 1) \in ColIdx)

Called(f, arg) ==
    /\ calls < MaxCalls
    /\ calls' = calls + 1
    /\ lastCall' = f
    /\ lastArg' = arg
    /\ repeated' = (lastCall = f /\ lastArg = arg)

Init ==
    /\ cells = EmptyScreen
    /\ cursor = Home
    /\ shift = NotShifted
    /\ cursorMode = "Off"
    /\ writingDirection = "LeftToRight"
    /\ autoScroll = FALSE
    /\ backlight \in BOOLEAN
    /\ enabled \in BOOLEAN
    /\ lastCall = "initialize"
    /\ lastArg = <<>>
    /\ repeated = FALSE
    /\ calls = 0

\* reset that leaves the writing direction as it is.
resetKeepsDirection ==
    /\ Called("reset", <<>>)
    /\ cells' = EmptyScreen
    /\ cursor' = Home
    /\ shift' = NotShifted
    /\ cursorMode' = "Off"
    /\ autoScroll' = FALSE
    /\ enabled' \in BOOLEAN
    /\ UNCHANGED <<writingDirection, backlight>>

\* reset that also switches the backlight off.
resetBacklightOff ==
    /\ Called("reset", <<>>)
    /\ cells' = EmptyScreen
    /\ cursor' = Home
    /\ shift' = NotShifted
    /\ cursorMode' = "Off"
    /\ writingDirection' = "LeftToRight"
    /\ autoScroll' = FALSE
    /\ enabled' \in BOOLEAN
    /\ backlight' = FALSE

reset ==
    /\ Called("reset", <<>>)
    /\ cells' = EmptyScreen
    /\ cursor' = Home
    /\ shift' = NotShifted
    /\ cursorMode' = "Off"
    /\ writingDirection' = "LeftToRight"
    /\ autoScroll' = FALSE
    /\ enabled' \in BOOLEAN
    /\ UNCHANGED backlight

\* clear that leaves the cursor where it is.
clearKeepsCursor ==
    /\ Called("clear", <<>>)
    /\ cells' = EmptyScreen
    /\ UNCHANGED <<cursor, shift, cursorMode, writingDirection, autoScroll,
                   backlight, enabled>>

clear ==
    /\ Called("clear", <<>>)
    /\ cells' = EmptyScreen
    /\ cursor' = Home
    /\ UNCHANGED <<shift, cursorMode, writingDirection, autoScroll,
                   backlight, enabled>>

\* cursorReset that clears the display as clear() does.
cursorResetClears ==
    /\ Called("cursorReset", <<>>)
    /\ cells' = EmptyScreen
    /\ cursor' = Home
    /\ UNCHANGED <<shift, cursorMode, writingDirection, autoScroll,
                   backlight, enabled>>

cursorReset ==
    /\ Called("cursorReset", <<>>)
    /\ cursor' = Home
    /\ UNCHANGED <<cells, shift, cursorMode, writingDirection, autoScroll,
                   backlight, enabled>>

\* setCursor that moves the cursor by (x, y) from where it stands.
SetCursorRelative(cur, x, y) ==
    [x |-> (IF cur.x \in ColIdx THEN cur.x + x ELSE x) % Columns,
     y |-> (cur.y + y) % Rows]

SetCursor(cur, x, y) == [x |-> x, y |-> y]

setCursor(x, y) ==
    /\ Called("setCursor", <<x, y>>)
    /\ cursor' = SetCursor(cursor, x, y)
    /\ UNCHANGED <<cells, shift, cursorMode, writingDirection, autoScroll,
                   backlight, enabled>>

writeChar(c) ==
    /\ OnDisplay(cursor)
    /\ Called("writeChar", <<c>>)
    /\ cells' = WriteChar(cells, cursor, writingDirection, c).cells
    /\ cursor' = WriteChar(cells, cursor, writingDirection, c).cursor
    /\ UNCHANGED <<shift, cursorMode, writingDirection, autoScroll,
                   backlight, enabled>>

\* writeText(const String &text)
writeTextString(s) ==
    /\ Fits(cursor, writingDirection, Len(s))
    /\ Called("writeText", s)
    /\ cells' = WriteText(cells, cursor, writingDirection, s).cells
    /\ cursor' = WriteText(cells, cursor, writingDirection, s).cursor
    /\ UNCHANGED <<shift, cursorMode, writingDirection, autoScroll,
                   backlight, enabled>>

\* writeText(const char *text)
writeTextChars(s) ==
    /\ Fits(cursor, writingDirection, Len(s))
    /\ Called("writeText", s)
    /\ cells' = WriteText(cells, cursor, writingDirection, s).cells
    /\ cursor' = WriteText(cells, cursor, writingDirection, s).cursor
    /\ UNCHANGED <<shift, cursorMode, writingDirection, autoScroll,
                   backlight, enabled>>

setEnabled(e) ==
    /\ Called("setEnabled", <<e>>)
    /\ enabled' = e
    /\ UNCHANGED <<cells, cursor, shift, cursorMode, writingDirection,
                   autoScroll, backlight>>

setCursorMode(mode) ==
    /\ Called("setCursorMode", <<mode>>)
    /\ cursorMode' = mode
    /\ UNCHANGED <<cells, cursor, shift, writingDirection, autoScroll,
                   backlight, enabled>>

setBacklightEnabled(e) ==
    /\ Called("setBacklightEnabled", <<e>>)
    /\ backlight' = e
    /\ UNCHANGED <<cells, cursor, shift, cursorMode, writingDirection,
                   autoScroll, enabled>>

setWritingDirection(dir) ==
    /\ Called("setWritingDirection", <<dir>>)
    /\ writingDirection' = dir
    /\ UNCHANGED <<cells, cursor, shift, cursorMode, autoScroll, backlight,
                   enabled>>

setAutoScrollEnabled(e) ==
    /\ Called("setAutoScrollEnabled", <<e>>)
    /\ autoScroll' = e
    /\ UNCHANGED <<cells, cursor, shift, cursorMode, writingDirection,
                   backlight, enabled>>

scroll(d) ==
    /\ Called("scroll", <<d>>)
    /\ shift' = [x |-> shift.x + Delta(d).x, y |-> shift.y + Delta(d).y]
    /\ UNCHANGED <<cells, cursor, cursorMode, writingDirection, autoScroll,
                   backlight, enabled>>

Next ==
    \/ reset
    \/ clear
    \/ cursorReset
    \/ \E x \in ColIdx, y \in RowIdx : setCursor(x, y)
    \/ \E c \in Chars : writeChar(c)
    \/ \E s \in Texts : writeTextString(s)
    \/ \E s \in Texts : writeTextChars(s)
    \/ \E e \in BOOLEAN : setEnabled(e)
    \/ \E mode \in CursorMode : setCursorMode(mode)
    \/ \E e \in BOOLEAN : setBacklightEnabled(e)
    \/ \E dir \in WritingDirection : setWritingDirection(dir)
    \/ \E e \in BOOLEAN : setAutoScrollEnabled(e)
    \/ \E d \in ScrollDirection : scroll(d)

Spec == Init /\ [][Next]_vars

TypeOK ==
    /\ cells \in [RowIdx -> [ColIdx -> Cell]]
    /\ cursor.x \in -1..Columns /\ cursor.y \in RowIdx
    /\ shift.x \in -MaxCalls..MaxCalls /\ shift.y \in -MaxCalls..MaxCalls
    /\ cursorMode \in CursorMode
    /\ writingDirection \in WritingDirection
    /\ autoScroll \in BOOLEAN /\ backlight \in BOOLEAN /\ enabled \in BOOLEAN
    /\ repeated \in BOOLEAN
    /\ calls \in 0..MaxCalls

(***************************************************************************)
(* The claims.  A step is identified by the call record it leaves behind   *)
(* (lastCall', lastArg'), so that a formula states what a call does and    *)
(* does not refer to the action that models it.                            *)
(***************************************************************************)

\* The display state reset() is documented to establish.
DefinedInitialState ==
    /\ \A y \in RowIdx : \A x \in ColIdx : cells[y][x] = " "
    /\ cursor.x = 0 /\ cursor.y = 0
    /\ shift.x = 0 /\ shift.y = 0
    /\ cursorMode = "Off"
    /\ writingDirection = "LeftToRight"
    /\ autoScroll = FALSE

\* C1: after reset(), whatever calls came before it, every cell is empty,
\* the cursor is at (0,0), the display is not shifted, the cursor mode is
\* Off, the writing direction is left to right and auto-scroll is off; the
\* display is in that same state right after initialization.
C1_ResetDefinedInitialState ==
    lastCall \in {"reset", "initialize"} => DefinedInitialState

\* A reset() made as the last of MaxCalls calls.
C1_Witness ==
    lastCall = "reset" /\ calls = MaxCalls /\ DefinedInitialState

\* C2: reset() leaves the backlight as it was before the call.
C2_ResetKeepsBacklight ==
    [][lastCall' = "reset" => backlight' = backlight]_vars

\* A reset() after which the backlight is still on.
C2_Witness ==
    lastCall = "reset" /\ calls > 1 /\ backlight = TRUE

\* C3: after clear() every cell is empty and the cursor is at (0,0).
C3_ClearEmptiesAndHomes ==
    lastCall = "clear" =>
        /\ \A y \in RowIdx : \A x \in ColIdx : cells[y][x] = " "
        /\ cursor.x = 0 /\ cursor.y = 0

\* A clear() made in right-to-left writing, as the last of MaxCalls calls.
C3_Witness ==
    /\ lastCall = "clear" /\ calls = MaxCalls
    /\ writingDirection = "RightToLeft"
    /\ cursor = [x |-> 0, y |-> 0]

\* C4: cursorReset() moves the cursor to (0,0) and changes no cell.
C4_CursorResetKeepsContent ==
    [][lastCall' = "cursorReset" =>
          /\ cursor'.x = 0 /\ cursor'.y = 0
          /\ \A y \in RowIdx : \A x \in ColIdx : cells'[y][x] = cells[y][x]]_vars

\* A cursorReset() after which a written character is still on the display.
C4_Witness ==
    /\ lastCall = "cursorReset"
    /\ cursor = [x |-> 0, y |-> 0]
    /\ \E y \in RowIdx : \E x \in ColIdx : cells[y][x] # " "

\* writeChar(s[1]), ..., writeChar(s[Len(s)]) from cells cs and cursor cur.
RECURSIVE WriteChars(_, _, _, _)
WriteChars(cs, cur, dir, s) ==
    IF s = <<>>
    THEN [cells |-> cs, cursor |-> cur]
    ELSE LET r == WriteChar(cs, cur, dir, Head(s))
         IN  WriteChars(r.cells, r.cursor, dir, Tail(s))

C7_SetCursorIdempotent ==
    [][(lastCall' = "setCursor" /\ repeated') =>
          /\ cursor' = cursor
          /\ cursor'.x = lastArg'[1] /\ cursor'.y = lastArg'[2]
          /\ UNCHANGED <<cells, shift, cursorMode, writingDirection,
                         autoScroll, backlight, enabled>>]_vars

\* setCursor(1, 1) called twice in a row.
C7_Witness ==
    lastCall = "setCursor" /\ repeated /\ lastArg = <<1, 1>> /\ cursor.x = 1

====
